---- MODULE Spec2Model ----
(***************************************************************************)
(* A model of secrets-manager: the crypto envelope (src/src/crypto.rs),    *)
(* the project entity (src/src/models.rs), the project store               *)
(* (src/src/storage.rs) and the commands that write it (src/src/cli.rs).   *)
(*                                                                         *)
(* Byte strings are sequences of byte symbols.  The library primitives are *)
(* modelled by their contracts:                                            *)
(*   - PBKDF2-HMAC-SHA256 is a deterministic function of the HMAC key      *)
(*     block (RFC 2104: a key shorter than the hash block is zero-padded   *)
(*     to the block) and the salt, and is otherwise collision free;        *)
(*   - AES-256-GCM returns the encrypted body followed by a tag that binds *)
(*     key, nonce and body; decryption releases the plaintext only when    *)
(*     the tag verifies;                                                   *)
(*   - base64 (STANDARD) is a strict, injective, byte-granular encoding;   *)
(*   - OsRng is a source whose outputs never repeat: its k-th output is    *)
(*     named by k.                                                         *)
(***************************************************************************)
EXTENDS Integers, Sequences, FiniteSets, TLC

VARIABLES
    files,      \* the filesystem: resolved path -> text of the file
    entropy,    \* number of values drawn from OsRng so far
    last,       \* the most recent call and its outcome
    hist,       \* per project name: the most recent successful save or delete
    written,    \* every envelope encrypt_project has produced so far
    env,        \* the envelope under test (crypto envelope specification)
    origin,     \* the project and password env was encrypted from
    procs,      \* in-flight save_project calls (step-level specification)
    entity      \* the Project held in memory (project entity specification)

vars == <<files, entropy, last, hist, written, env, origin, procs, entity>>

----------------------------------------------------------------------------
(* Bounds of the model. *)

MaxEncrypts == 2     \* calls of encrypt_project in one behaviour
MaxSaves == 2        \* calls of save_project in one behaviour
MaxTime == 2         \* readings of the system clock are 0..MaxTime
MaxCliSaves == 2     \* calls of save_project by CLI commands in one behaviour

----------------------------------------------------------------------------
(* Program constants. *)

SaltLen == 16
NonceLen == 12
Pbkdf2Rounds == 100000
HmacBlock == 64

----------------------------------------------------------------------------
(* Results: Ok(v) and Err(e) of anyhow::Result; a panic unwinds instead of *)
(* returning.                                                              *)

Ok(v) == [ok |-> TRUE, panic |-> FALSE, err |-> "", val |-> v]
Err(e) == [ok |-> FALSE, panic |-> FALSE, err |-> e, val |-> <<>>]
Panic(e) == [ok |-> FALSE, panic |-> TRUE, err |-> e, val |-> <<>>]

----------------------------------------------------------------------------
(* models.rs: Project. *)

SecretKeys == {"API_KEY"}
SecretValues == {"abc123", "secret123"}

SecretMaps ==
    UNION {[ks -> SecretValues] : ks \in SUBSET SecretKeys}

Project(name, secrets, created, updated) ==
    [name |-> name, secrets |-> secrets,
     created_at |-> created, updated_at |-> updated]

\* Project::new at time now
ProjectNew(name, now) == Project(name, <<>>, now, now)

\* HashMap::insert
MapInsert(map, key, value) ==
    [k \in (DOMAIN map) \cup {key} |-> IF k = key THEN value ELSE map[k]]

\* HashMap::remove
MapRemove(map, key) == [k \in (DOMAIN map) \ {key} |-> map[k]]

\* Project::add_secret at time now
add_secret(p, key, value, now) ==
    [p EXCEPT !.secrets = MapInsert(@, key, value), !.updated_at = now]

\* Project::remove_secret at time now: the project it leaves and the
\* Option it returns
remove_secret(p, key, now) ==
    LET result == IF key \in DOMAIN p.secrets
                  THEN Ok(p.secrets[key]) ELSE Err("None")
    IN  [project |-> IF result.ok
                     THEN [p EXCEPT !.secrets = MapRemove(@, key),
                                     !.updated_at = now]
                     ELSE [p EXCEPT !.secrets = MapRemove(@, key)],
         result |-> result]

----------------------------------------------------------------------------
(* serde_json for Project: to_string / from_slice.  The JSON text is one   *)
(* symbol per member of the object, in declaration order.                  *)

Member(f, v) == [f |-> f, v |-> v, flip |-> FALSE]

to_string(project) ==
    << Member("name", project.name),
       Member("secrets", project.secrets),
       Member("created_at", project.created_at),
       Member("updated_at", project.updated_at) >>

\* A member whose bytes were changed still parses when the change stays inside
\* a string literal: the value read is then not the value written.
Garbled(v) == <<"garbled", v>>

MemberValue(m) == IF m.flip THEN Garbled(m.v) ELSE m.v

from_slice(bytes) ==
    IF /\ Len(bytes) = 4
       /\ bytes[1].f = "name"
       /\ bytes[2].f = "secrets"
       /\ bytes[3].f = "created_at"
       /\ bytes[4].f = "updated_at"
    THEN Ok(Project(MemberValue(bytes[1]), MemberValue(bytes[2]),
                    MemberValue(bytes[3]), MemberValue(bytes[4])))
    ELSE Err("Json")

----------------------------------------------------------------------------
(* base64::engine::general_purpose::STANDARD.                              *)

B64Char(b) == [b64 |-> TRUE, sym |-> b]
\* a character outside the base64 alphabet
JunkChar == [b64 |-> FALSE, sym |-> 0]

B64Encode(bytes) == [i \in 1..Len(bytes) |-> B64Char(bytes[i])]

B64Decode(text) ==
    IF \E i \in 1..Len(text) : ~text[i].b64
    THEN Err("Base64Decode")
    ELSE Ok([i \in 1..Len(text) |-> text[i].sym])

----------------------------------------------------------------------------
(* OsRng: the k-th output, n bytes long. *)

RandBytes(n, k) == [i \in 1..n |-> k]

----------------------------------------------------------------------------
(* crypto.rs: derive_key. *)

\* hmac: the key block HMAC works with
HmacKey(password) ==
    IF Len(password) <= HmacBlock
    THEN [i \in 1..HmacBlock |->
            IF i <= Len(password) THEN password[i] ELSE 0]
    ELSE [i \in 1..HmacBlock |->
            IF i = 1 THEN <<"sha256", password>> ELSE 0]

derive_key(password, salt) ==
    [kdf |-> HmacKey(password), salt |-> salt, rounds |-> Pbkdf2Rounds]

----------------------------------------------------------------------------
(* aes_gcm: Aes256Gcm encrypt / decrypt. *)

GcmTag(key, nonce, body) ==
    [tag |-> TRUE, key |-> key, nonce |-> nonce, body |-> body, flip |-> FALSE]

\* a verification that checks the key and the nonce but not the body
AeadVerifyIgnoresBody(key, nonce, body, tag) ==
    tag.key = key /\ tag.nonce = nonce

AeadVerify(key, nonce, body, tag) == tag = GcmTag(key, nonce, body)

AeadEncrypt(key, nonce, plaintext) ==
    Append(plaintext, GcmTag(key, nonce, plaintext))

AeadDecrypt(key, nonce, ciphertext) ==
    IF Len(ciphertext) = 0
    THEN Err("Aead")
    ELSE LET body == SubSeq(ciphertext, 1, Len(ciphertext) - 1)
             tag == ciphertext[Len(ciphertext)]
         IN  IF AeadVerify(key, nonce, body, tag)
             THEN Ok(body)
             ELSE Err("Aead")

\* one bit of the byte string changed, in byte i
FlipBit(bytes, i) == [bytes EXCEPT ![i].flip = ~@]

----------------------------------------------------------------------------
(* models.rs: EncryptedProject. *)

EncryptedProject(data, salt, nonce) ==
    [encrypted_data |-> data, salt |-> salt, nonce |-> nonce]

NoEnvelope == EncryptedProject(<<>>, <<>>, <<>>)

----------------------------------------------------------------------------
(* crypto.rs: encrypt_project.  rng is the number of values OsRng has      *)
(* given out before the call; the call draws two more.                     *)

\* the envelope records another nonce than the one the cipher was given
encrypt_project_wrong_nonce(project, password, rng) ==
    LET salt == RandBytes(SaltLen, rng + 1)
        nonce == RandBytes(NonceLen, rng + 2)
        key == derive_key(password, salt)
        json_data == to_string(project)
        ciphertext == AeadEncrypt(key, nonce, json_data)
    IN  Ok(EncryptedProject(B64Encode(ciphertext),
                            B64Encode(salt),
                            B64Encode(RandBytes(NonceLen, rng + 1))))

\* the nonce is a constant instead of a draw from OsRng
encrypt_project_fixed_nonce(project, password, rng) ==
    LET salt == RandBytes(SaltLen, rng + 1)
        nonce == RandBytes(NonceLen, 0)
        key == derive_key(password, salt)
        json_data == to_string(project)
        ciphertext == AeadEncrypt(key, nonce, json_data)
    IN  Ok(EncryptedProject(B64Encode(ciphertext),
                            B64Encode(salt),
                            B64Encode(nonce)))

encrypt_project(project, password, rng) ==
    LET salt == RandBytes(SaltLen, rng + 1)
        nonce == RandBytes(NonceLen, rng + 2)
        key == derive_key(password, salt)
        json_data == to_string(project)
        ciphertext == AeadEncrypt(key, nonce, json_data)
    IN  Ok(EncryptedProject(B64Encode(ciphertext),
                            B64Encode(salt),
                            B64Encode(nonce)))

\* values encrypt_project draws from OsRng
EncryptDraws == 2

(* crypto.rs: decrypt_project. *)

decrypt_project(encrypted, password) ==
    LET salt == B64Decode(encrypted.salt)
        nonce_bytes == B64Decode(encrypted.nonce)
        ciphertext == B64Decode(encrypted.encrypted_data)
    IN  IF ~salt.ok THEN Err("Base64Decode")
        ELSE IF ~nonce_bytes.ok THEN Err("Base64Decode")
        ELSE IF ~ciphertext.ok THEN Err("Base64Decode")
        ELSE LET key == derive_key(password, salt.val)
             IN  IF Len(nonce_bytes.val) # NonceLen
                 THEN Panic("Nonce::from_slice")
                 ELSE LET plaintext ==
                              AeadDecrypt(key, nonce_bytes.val, ciphertext.val)
                      IN  IF ~plaintext.ok
                          THEN Err("DecryptionFailed")
                          ELSE from_slice(plaintext.val)

\* crypto.rs: validate_password
validate_password(encrypted, password) ==
    decrypt_project(encrypted, password).ok

----------------------------------------------------------------------------
(* std::path and the filesystem.  A path string is a sequence of           *)
(* characters; a resolved path is the sequence of its components from the  *)
(* filesystem root.                                                        *)

Suffix == <<".", "encrypted">>

\* ~/.secrets_manager, with the home directory /home
StorageDirString == <<"/", "home", "/", ".secrets_manager">>
HomeDir == << <<"home">> >>
StorageRoot == << <<"home">>, <<".secrets_manager">> >>

\* The directories that exist: /, the home directory and the storage root
\* (SecretStorage::new creates it; nothing creates or removes another).
Dirs == { <<>>, HomeDir, StorageRoot }

\* PathBuf::join: an absolute argument replaces the base
PathJoin(base, rel) ==
    IF rel # <<>> /\ rel[1] = "/" THEN rel ELSE base \o <<"/">> \o rel

RECURSIVE SplitPath(_)
SplitPath(s) ==
    IF \A i \in 1..Len(s) : s[i] # "/"
    THEN << s >>
    ELSE LET i == CHOOSE k \in 1..Len(s) :
                      s[k] = "/" /\ \A m \in 1..(k - 1) : s[m] # "/"
         IN  << SubSeq(s, 1, i - 1) >> \o SplitPath(SubSeq(s, i + 1, Len(s)))

\* The kernel's walk: "." and empty components are skipped, ".." goes to the
\* parent (the root is its own parent), any other component but the last
\* must be an existing directory.
RECURSIVE Walk(_, _)
Walk(cur, comps) ==
    IF Len(comps) = 1
    THEN Ok(Append(cur, comps[1]))
    ELSE LET c == Head(comps)
         IN  IF c = <<>> \/ c = <<".">>
             THEN Walk(cur, Tail(comps))
             ELSE IF c = <<".", ".">>
             THEN Walk(IF cur = <<>> THEN cur
                       ELSE SubSeq(cur, 1, Len(cur) - 1), Tail(comps))
             ELSE IF Append(cur, c) \in Dirs
             THEN Walk(Append(cur, c), Tail(comps))
             ELSE Err("Io")

Resolve(path) == Walk(<<>>, SplitPath(path))

Parent(rpath) == SubSeq(rpath, 1, Len(rpath) - 1)
FileName(rpath) == rpath[Len(rpath)]

\* Path::exists
PathExists(fs, path) ==
    LET r == Resolve(path) IN r.ok /\ r.val \in DOMAIN fs

\* the files an access by this path string reaches
Touched(path) ==
    LET r == Resolve(path) IN IF r.ok THEN {r.val} ELSE {}

WithFile(fs, rpath, text) ==
    [q \in (DOMAIN fs) \cup {rpath} |-> IF q = rpath THEN text ELSE fs[q]]

WithoutFile(fs, rpath) ==
    [q \in (DOMAIN fs) \ {rpath} |-> fs[q]]

\* Path::extension and Path::file_stem of a file name (rsplit_file_at_dot)
HasDot(name) == \E i \in 1..Len(name) : name[i] = "."
LastDot(name) ==
    CHOOSE i \in 1..Len(name) :
        name[i] = "." /\ \A m \in (i + 1)..Len(name) : name[m] # "."

PathExtension(name) ==
    IF name = <<".", ".">> \/ ~HasDot(name) \/ LastDot(name) = 1
    THEN Err("None")
    ELSE Ok(SubSeq(name, LastDot(name) + 1, Len(name)))

PathFileStem(name) ==
    IF name = <<".", ".">> \/ ~HasDot(name) \/ LastDot(name) = 1
    THEN name
    ELSE SubSeq(name, 1, LastDot(name) - 1)

\* String's Ord: byte-wise lexicographic
CharCode(c) ==
    CASE c = "." -> 46
      [] c = "/" -> 47
      [] c = "a" -> 97
      [] c = "b" -> 98
      [] OTHER -> 101

RECURSIVE StrLess(_, _)
StrLess(x, y) ==
    IF y = <<>> THEN FALSE
    ELSE IF x = <<>> THEN TRUE
    ELSE IF CharCode(Head(x)) < CharCode(Head(y)) THEN TRUE
    ELSE IF CharCode(Head(x)) > CharCode(Head(y)) THEN FALSE
    ELSE StrLess(Tail(x), Tail(y))

\* Vec::sort of the collected names
RECURSIVE Sorted(_)
Sorted(S) ==
    IF S = {} THEN <<>>
    ELSE LET m == CHOOSE x \in S : \A y \in S \ {x} : StrLess(x, y)
         IN  << m >> \o Sorted(S \ {m})

----------------------------------------------------------------------------
(* serde_json for EncryptedProject: to_string_pretty / from_str. *)

to_string_pretty(encrypted) ==
    << Member("encrypted_data", encrypted.encrypted_data),
       Member("salt", encrypted.salt),
       Member("nonce", encrypted.nonce) >>

from_str(text) ==
    IF /\ Len(text) = 3
       /\ text[1].f = "encrypted_data"
       /\ text[2].f = "salt"
       /\ text[3].f = "nonce"
    THEN Ok(EncryptedProject(text[1].v, text[2].v, text[3].v))
    ELSE Err("Json")

----------------------------------------------------------------------------
(* storage.rs: SecretStorage.  Each operation takes the filesystem and     *)
(* returns its result, the filesystem it leaves and the files it touched.  *)

Outcome(res, fs, touched) == [res |-> res, files |-> fs, touched |-> touched]

get_project_path(project_name) ==
    PathJoin(StorageDirString, project_name \o Suffix)

\* fs::write: creates or truncates the file, then writes all of the data
FsWrite(fs, path, text) ==
    LET r == Resolve(path)
    IN  IF r.ok /\ Parent(r.val) \in Dirs
        THEN Outcome(Ok(<<>>), WithFile(fs, r.val, text), {r.val})
        ELSE Outcome(Err("Io"), fs, Touched(path))

save_project(fs, project, password, rng) ==
    LET encrypted == encrypt_project(project, password, rng)
        project_path == get_project_path(project.name)
        json_data == to_string_pretty(encrypted.val)
    IN  FsWrite(fs, project_path, json_data)

load_project(fs, project_name, password) ==
    LET project_path == get_project_path(project_name)
    IN  IF ~PathExists(fs, project_path)
        THEN Err("NotFound")
        ELSE LET json_data == fs[Resolve(project_path).val]
                 encrypted == from_str(json_data)
             IN  IF ~encrypted.ok
                 THEN Err("Json")
                 ELSE decrypt_project(encrypted.val, password)

list_projects(fs) ==
    IF StorageRoot \notin Dirs
    THEN Ok(<<>>)
    ELSE LET entries == { q \in DOMAIN fs : Parent(q) = StorageRoot }
             projects ==
                 { PathFileStem(FileName(q)) :
                     q \in { e \in entries :
                               PathExtension(FileName(e)) = Ok(<<"encrypted">>) } }
         IN  Ok(Sorted(projects))

delete_project(fs, project_name) ==
    LET project_path == get_project_path(project_name)
    IN  IF ~PathExists(fs, project_path)
        THEN Outcome(Err("NotFound"), fs, Touched(project_path))
        ELSE Outcome(Ok(<<>>), WithoutFile(fs, Resolve(project_path).val),
                     Touched(project_path))

project_exists(fs, project_name) ==
    PathExists(fs, get_project_path(project_name))

----------------------------------------------------------------------------
(* Inputs of the model. *)

\* Project names, one character per element.  "encrypted" stands for the nine
\* letters of the file suffix and is never part of a name.
PlainNames == { <<"a">>, <<"b">> }

\* Passwords as bytes: "p", "p\0", "q".
Passwords == { <<112>>, <<112, 0>>, <<113>> }

\* Names the store is called with: plain ones, the empty name, names that
\* hold a "." or ".." segment or a separator, and an absolute one.
StoreNames ==
    { <<"a">>, <<"b">>, <<>>,
      <<".", "/", "a">>, <<".", ".", "/", "a">>, <<"a", "/", "b">> }

StorePasswords == { <<112>>, <<113>> }

StoreProjects ==
    { Project(n, s, 0, 0) :
        n \in StoreNames, s \in { <<>>, [k \in SecretKeys |-> "abc123"] } }

CryptoProjects ==
    { Project(n, s, 0, 0) : n \in PlainNames, s \in SecretMaps }

\* The most recent call: what was called, with what, what it returned and
\* which files it touched.
Call(op, name, password, res, touched) ==
    [op |-> op, name |-> name, password |-> password, res |-> res,
     touched |-> touched]

NoCall == Call("none", <<>>, <<>>, Ok(<<>>), {})

NoOrigin == [state |-> "none", project |-> ProjectNew(<<>>, 0),
             password |-> <<>>, kind |-> ""]

----------------------------------------------------------------------------
(* The crypto envelope on its own: encrypt_project, then decrypt_project   *)
(* of the envelope as produced, with one bit of the ciphertext changed, or *)
(* with a field replaced by a malformed one.                               *)

MalformKinds ==
    { "salt_junk", "nonce_junk", "data_junk",
      "salt_short", "salt_long", "nonce_short", "nonce_long" }

Shorter(text) == SubSeq(text, 1, Len(text) - 1)
Longer(text) == Append(text, B64Char(0))

Malform(e, kind) ==
    CASE kind = "salt_junk" -> [e EXCEPT !.salt = Append(Shorter(@), JunkChar)]
      [] kind = "nonce_junk" -> [e EXCEPT !.nonce = Append(Shorter(@), JunkChar)]
      [] kind = "data_junk" ->
            [e EXCEPT !.encrypted_data = Append(Shorter(@), JunkChar)]
      [] kind = "salt_short" -> [e EXCEPT !.salt = Shorter(@)]
      [] kind = "salt_long" -> [e EXCEPT !.salt = Longer(@)]
      [] kind = "nonce_short" -> [e EXCEPT !.nonce = Shorter(@)]
      [] kind = "nonce_long" -> [e EXCEPT !.nonce = Longer(@)]

\* the envelope with one bit of its ciphertext changed, in byte i
Tamper(e, i) ==
    [e EXCEPT !.encrypted_data =
        B64Encode(FlipBit(B64Decode(e.encrypted_data).val, i))]

CryptoInit ==
    /\ files = <<>>
    /\ hist = <<>>
    /\ procs = <<>>
    /\ entropy = 0
    /\ last = NoCall
    /\ written = <<>>
    /\ env = NoEnvelope
    /\ origin = NoOrigin
    /\ entity = ProjectNew(<<>>, 0)

CEncrypt(project, password) ==
    /\ entropy + EncryptDraws <= MaxEncrypts * EncryptDraws
    /\ LET r == encrypt_project(project, password, entropy)
       IN  /\ env' = r.val
           /\ written' = Append(written, r.val)
           /\ last' = Call("encrypt", project.name, password, r, {})
    /\ entropy' = entropy + EncryptDraws
    /\ origin' = [state |-> "genuine", project |-> project,
                  password |-> password, kind |-> ""]
    /\ UNCHANGED <<entity, files, hist, procs>>

CTamper(i) ==
    /\ origin.state = "genuine"
    /\ i \in 1..Len(env.encrypted_data)
    /\ env' = Tamper(env, i)
    /\ origin' = [origin EXCEPT !.state = "tampered", !.kind = "bytes"]
    /\ last' = NoCall
    /\ UNCHANGED <<entity, files, hist, procs, entropy, written>>

\* one bit of the stored base64 text changed so that character i leaves the
\* alphabet
CTamperText(i) ==
    /\ origin.state = "genuine"
    /\ i \in 1..Len(env.encrypted_data)
    /\ env' = [env EXCEPT !.encrypted_data[i] = JunkChar]
    /\ origin' = [origin EXCEPT !.state = "tampered", !.kind = "text"]
    /\ last' = NoCall
    /\ UNCHANGED <<entity, files, hist, procs, entropy, written>>

CMalform(kind) ==
    /\ origin.state = "genuine"
    /\ env' = Malform(env, kind)
    /\ origin' = [origin EXCEPT !.state = "malformed", !.kind = kind]
    /\ last' = NoCall
    /\ UNCHANGED <<entity, files, hist, procs, entropy, written>>

CDecrypt(password) ==
    /\ origin.state # "none"
    /\ last' = Call("decrypt", origin.project.name, password,
                    decrypt_project(env, password), {})
    /\ UNCHANGED <<entity, files, hist, procs, entropy, written, env, origin>>

CryptoNext ==
    \/ \E project \in CryptoProjects, password \in Passwords :
            CEncrypt(project, password)
    \/ \E i \in DOMAIN env.encrypted_data : CTamper(i)
    \/ \E i \in DOMAIN env.encrypted_data : CTamperText(i)
    \/ \E kind \in MalformKinds : CMalform(kind)
    \/ \E password \in Passwords : CDecrypt(password)

CryptoSpec == CryptoInit /\ [][CryptoNext]_vars

----------------------------------------------------------------------------
(* Claims about the crypto envelope, checked under CryptoSpec. *)

DecryptedGenuine ==
    /\ last.op = "decrypt"
    /\ origin.state = "genuine"

\* C2: decrypt_project(encrypt_project(P, W), W) succeeds and returns a
\* project with the name and the secrets map of P.
C2_RoundTrip ==
    (DecryptedGenuine /\ last.password = origin.password)
        => /\ last.res.ok
           /\ last.res.val.name = origin.project.name
           /\ last.res.val.secrets = origin.project.secrets

C2_Witness ==
    /\ DecryptedGenuine
    /\ last.password = origin.password
    /\ last.res.ok
    /\ origin.project.secrets # <<>>
    /\ last.res.val.secrets = origin.project.secrets

\* C3: for passwords W1 # W2, decrypt_project(encrypt_project(P, W1), W2)
\* fails with the authentication error and returns no project.
C3_WrongPasswordRejected ==
    (DecryptedGenuine /\ last.password # origin.password)
        => /\ ~last.res.ok
           /\ ~last.res.panic
           /\ last.res.err = "DecryptionFailed"

\* C6: no two envelopes produced by encrypt_project share their salt, their
\* nonce or their ciphertext, so no (key, nonce) pair is used twice; every
\* call draws its salt and its nonce from OsRng.
C6_Fresh ==
    /\ Len(written) * EncryptDraws = entropy
    /\ \A i, j \in DOMAIN written :
          i < j => /\ written[i].salt # written[j].salt
                   /\ written[i].nonce # written[j].nonce
                   /\ written[i].encrypted_data # written[j].encrypted_data

\* the same project encrypted twice under the same password
C6_Witness ==
    /\ Len(written) >= 2
    /\ last.op = "encrypt"
    /\ LET c1 == B64Decode(written[1].encrypted_data).val
           c2 == B64Decode(written[2].encrypted_data).val
       IN  /\ SubSeq(c1, 1, Len(c1) - 1) = SubSeq(c2, 1, Len(c2) - 1)
           /\ c1[Len(c1)].key.kdf = c2[Len(c2)].key.kdf
    /\ written[1].salt # written[2].salt
    /\ written[1].nonce # written[2].nonce
    /\ written[1].encrypted_data # written[2].encrypted_data

\* C7: an envelope that differs from encrypt_project(P, W) in one bit of the
\* ciphertext never decrypts under W: decrypt_project returns no project.
C7_TamperDetected ==
    (last.op = "decrypt" /\ origin.state = "tampered"
        /\ last.password = origin.password)
        => ~last.res.ok

\* a bit of the encrypted body changed, the tag and the password the right ones
C7_Witness ==
    /\ last.op = "decrypt"
    /\ origin.state = "tampered"
    /\ origin.kind = "bytes"
    /\ B64Decode(env.encrypted_data).val[2].flip
    /\ last.password = origin.password
    /\ last.res.err = "DecryptionFailed"

\* C10: decrypt_project returns the malformed-envelope error, and neither
\* panics nor goes on to decrypt, whenever a field is not valid base64, the
\* salt is not 16 bytes or the nonce is not 12 bytes.
C10_MalformedRejected ==
    (last.op = "decrypt" /\ origin.state = "malformed")
        => /\ ~last.res.ok
           /\ ~last.res.panic
           /\ last.res.err = "Base64Decode"

\* C13: decrypt_project gives one and the same outcome, the decryption error
\* with no project, under a wrong password and under the right password when
\* a bit of the ciphertext bytes was changed; the result does not tell the
\* two cases apart.
C13_SameFailure ==
    (/\ last.op = "decrypt"
     /\ \/ origin.state = "genuine" /\ last.password # origin.password
        \/ /\ origin.state = "tampered"
           /\ origin.kind = "bytes"
           /\ last.password = origin.password)
        => last.res = Err("DecryptionFailed")

----------------------------------------------------------------------------
(* The project entity on its own: Project::new, then add_secret and        *)
(* remove_secret in any order.  chrono::Utc::now() reads the system clock, *)
(* which the operating system may set forward or back between two calls.   *)

Times == 0..MaxTime

EntityKeys == { "API_KEY", "FOO" }

\* the most recent call on the entity, the clock reading it got and the
\* project it was called on
EntityCall(op, key, now, before, result) ==
    [op |-> op, key |-> key, now |-> now, before |-> before, res |-> result]

EntityInit ==
    /\ files = <<>>
    /\ hist = <<>>
    /\ procs = <<>>
    /\ entropy = 0
    /\ written = <<>>
    /\ env = NoEnvelope
    /\ origin = NoOrigin
    /\ \E now \in Times :
          /\ entity = ProjectNew(<<"a">>, now)
          /\ last = EntityCall("new", "", now, entity, Ok(<<>>))

ProjectAddSecret(key, value, now) ==
    /\ entity' = add_secret(entity, key, value, now)
    /\ last' = EntityCall("add_secret", key, now, entity, Ok(<<>>))
    /\ UNCHANGED <<files, entropy, hist, written, env, origin, procs>>

ProjectRemoveSecret(key, now) ==
    /\ LET r == remove_secret(entity, key, now)
       IN  /\ entity' = r.project
           /\ last' = EntityCall("remove_secret", key, now, entity, r.result)
    /\ UNCHANGED <<files, entropy, hist, written, env, origin, procs>>

EntityNext ==
    \/ \E key \in EntityKeys, value \in SecretValues, now \in Times :
            ProjectAddSecret(key, value, now)
    \/ \E key \in EntityKeys, now \in Times : ProjectRemoveSecret(key, now)

EntitySpec == EntityInit /\ [][EntityNext]_vars

\* C12: updated_at >= created_at in every project reached from Project::new;
\* add_secret, and remove_secret of a present key, set updated_at to the
\* current time; remove_secret of an absent key changes neither the secrets
\* nor updated_at.
C12_TimestampInvariant ==
    /\ entity.updated_at >= entity.created_at
    /\ entity.created_at = last.before.created_at
    /\ last.op = "add_secret" =>
          /\ entity.updated_at = last.now
          /\ entity.secrets = MapInsert(last.before.secrets, last.key,
                                         entity.secrets[last.key])
    /\ last.op = "remove_secret" =>
          IF last.key \in DOMAIN last.before.secrets
          THEN /\ entity.updated_at = last.now
               /\ last.key \notin DOMAIN entity.secrets
          ELSE /\ entity.secrets = last.before.secrets
               /\ entity.updated_at = last.before.updated_at

----------------------------------------------------------------------------
(* The project store: one action per operation of SecretStorage, each the  *)
(* whole call.                                                             *)

NoOp == [op |-> "none", project |-> ProjectNew(<<>>, 0), password |-> <<>>]

Init ==
    /\ files = <<>>
    /\ entropy = 0
    /\ last = NoCall
    /\ hist = [n \in StoreNames |-> NoOp]
    /\ written = <<>>
    /\ env = NoEnvelope
    /\ origin = NoOrigin
    /\ entity = ProjectNew(<<>>, 0)
    /\ procs = <<>>

SaveProject(project, password) ==
    /\ entropy + EncryptDraws <= MaxSaves * EncryptDraws
    /\ LET out == save_project(files, project, password, entropy)
       IN  /\ files' = out.files
           /\ last' = Call("save", project.name, password, out.res, out.touched)
           /\ hist' = IF out.res.ok
                      THEN [hist EXCEPT ![project.name] =
                              [op |-> "save", project |-> project,
                               password |-> password]]
                      ELSE hist
    /\ entropy' = entropy + EncryptDraws
    /\ UNCHANGED <<entity, written, env, origin, procs>>

LoadProject(name, password) ==
    /\ last' = Call("load", name, password,
                    load_project(files, name, password),
                    Touched(get_project_path(name)))
    /\ UNCHANGED <<entity, files, entropy, hist, written, env, origin, procs>>

ListProjects ==
    /\ last' = Call("list", <<>>, <<>>, list_projects(files), {})
    /\ UNCHANGED <<entity, files, entropy, hist, written, env, origin, procs>>

DeleteProject(name) ==
    /\ LET out == delete_project(files, name)
       IN  /\ files' = out.files
           /\ last' = Call("delete", name, <<>>, out.res, out.touched)
           /\ hist' = IF out.res.ok
                      THEN [hist EXCEPT ![name] =
                              [NoOp EXCEPT !.op = "delete"]]
                      ELSE hist
    /\ UNCHANGED <<entity, entropy, written, env, origin, procs>>

ProjectExists(name) ==
    /\ last' = Call("exists", name, <<>>,
                    Ok(project_exists(files, name)),
                    Touched(get_project_path(name)))
    /\ UNCHANGED <<entity, files, entropy, hist, written, env, origin, procs>>

Next ==
    \/ \E project \in StoreProjects, password \in StorePasswords :
            SaveProject(project, password)
    \/ \E name \in StoreNames, password \in StorePasswords :
            LoadProject(name, password)
    \/ ListProjects
    \/ \E name \in StoreNames : DeleteProject(name)
    \/ \E name \in StoreNames : ProjectExists(name)

Spec == Init /\ [][Next]_vars

----------------------------------------------------------------------------
(* save_project step by step: the processes that share the storage root,   *)
(* each in one call of save_project, and a crash of a process between two  *)
(* steps.  fs::write is File::create (open, create or truncate) followed by *)
(* write_all; the text reaches the file one member at a time.              *)

ProcIds == { 1, 2 }

StepProjects ==
    { q \in StoreProjects : q.name \in PlainNames \cup { <<"a", "/", "b">> } }

\* old, existed and alone record, for the claims, the file as the call found
\* it and whether another save ran during the call; ended tells how the
\* process's previous call of save_project ended.
Idle == [pc |-> "idle", project |-> ProjectNew(<<>>, 0), password |-> <<>>,
         json |-> <<>>, rpath |-> <<>>, offset |-> 0, old |-> <<>>,
         existed |-> FALSE, alone |-> TRUE, ended |-> "none"]

\* bytes a write leaves between the end of the file and its offset
Hole == Member("", <<>>)

\* write(2) of one member at the descriptor's offset
WriteAt(text, offset, m) ==
    [i \in 1..(IF Len(text) > offset THEN Len(text) ELSE offset + 1) |->
        IF i = offset + 1 THEN m
        ELSE IF i <= Len(text) THEN text[i]
        ELSE Hole]

StepInit ==
    /\ files = <<>>
    /\ entropy = 0
    /\ last = NoCall
    /\ hist = [n \in StoreNames |-> NoOp]
    /\ written = <<>>
    /\ env = NoEnvelope
    /\ origin = NoOrigin
    /\ entity = ProjectNew(<<>>, 0)
    /\ procs = [p \in ProcIds |-> Idle]

\* storage.rs 36-39: encrypt, resolve the path, serialize
SaveEncrypt(p, project, password) ==
    /\ procs[p].pc = "idle"
    /\ entropy + EncryptDraws <= MaxSaves * EncryptDraws
    /\ LET encrypted == encrypt_project(project, password, entropy)
           others == \E q \in ProcIds \ {p} : procs[q].pc # "idle"
           r == Resolve(get_project_path(project.name))
           there == r.ok /\ r.val \in DOMAIN files
       IN  procs' = [q \in ProcIds |->
                IF q = p
                THEN [Idle EXCEPT !.pc = "encrypted",
                                  !.project = project,
                                  !.password = password,
                                  !.json = to_string_pretty(encrypted.val),
                                  !.existed = there,
                                  !.old = IF there THEN files[r.val] ELSE <<>>,
                                  !.alone = ~others]
                ELSE [procs[q] EXCEPT
                        !.alone = IF procs[q].pc = "idle" THEN @ ELSE FALSE]]
    /\ entropy' = entropy + EncryptDraws
    /\ last' = Call("save_begin", project.name, password, Ok(<<>>), {})
    /\ UNCHANGED <<entity, files, hist, written, env, origin>>

\* storage.rs 40, fs::write: File::create
SaveOpen(p) ==
    /\ procs[p].pc = "encrypted"
    /\ LET r == Resolve(get_project_path(procs[p].project.name))
       IN  IF r.ok
           THEN /\ files' = WithFile(files, r.val, <<>>)
                /\ procs' = [procs EXCEPT ![p].pc = "writing",
                                          ![p].rpath = r.val]
                /\ UNCHANGED last
           ELSE /\ procs' = [procs EXCEPT ![p] = [Idle EXCEPT !.ended = "failed"]]
                /\ last' = Call("save", procs[p].project.name,
                                procs[p].password, Err("Io"), {})
                /\ UNCHANGED files
    /\ UNCHANGED <<entity, entropy, hist, written, env, origin>>

\* storage.rs 40, fs::write: write_all, one member of the text
SaveWrite(p) ==
    /\ procs[p].pc = "writing"
    /\ procs[p].offset < Len(procs[p].json)
    /\ files' = WithFile(files, procs[p].rpath,
                    WriteAt(files[procs[p].rpath], procs[p].offset,
                            procs[p].json[procs[p].offset + 1]))
    /\ procs' = [procs EXCEPT ![p].offset = @ + 1]
    /\ UNCHANGED <<entity, entropy, last, hist, written, env, origin>>

\* storage.rs 41: Ok(())
SaveReturn(p) ==
    /\ procs[p].pc = "writing"
    /\ procs[p].offset = Len(procs[p].json)
    /\ last' = Call("save", procs[p].project.name, procs[p].password,
                    Ok(procs[p]), {procs[p].rpath})
    /\ hist' = [hist EXCEPT ![procs[p].project.name] =
                  [op |-> "save", project |-> procs[p].project,
                   password |-> procs[p].password]]
    /\ procs' = [procs EXCEPT ![p].pc = "idle", ![p].ended = "returned"]
    /\ UNCHANGED <<entity, files, entropy, written, env, origin>>

\* the process dies (kill, power loss) inside save_project
Crash(p) ==
    /\ procs[p].pc # "idle"
    /\ last' = Call("crash", procs[p].project.name, procs[p].password,
                    Ok(procs[p]),
                    IF procs[p].pc = "writing" THEN {procs[p].rpath} ELSE {})
    /\ procs' = [procs EXCEPT ![p] = [Idle EXCEPT !.ended = "crashed"]]
    /\ UNCHANGED <<entity, files, entropy, hist, written, env, origin>>

StepNext ==
    \/ \E p \in ProcIds, project \in StepProjects, password \in StorePasswords :
            SaveEncrypt(p, project, password)
    \/ \E p \in ProcIds : SaveOpen(p)
    \/ \E p \in ProcIds : SaveWrite(p)
    \/ \E p \in ProcIds : SaveReturn(p)
    \/ \E p \in ProcIds : Crash(p)

StepSpec == StepInit /\ [][StepNext]_vars

\* C4: a crash at any point of save_project for a name that has a valid
\* envelope leaves that name's file holding the complete previous envelope
\* or the complete new one, never an empty or partly written one.
C4_CrashAtomic ==
    (/\ last.op = "crash"
     /\ last.res.val.alone
     /\ last.res.val.existed
     /\ from_str(last.res.val.old).ok)
        => LET r == Resolve(get_project_path(last.name))
           IN  /\ r.val \in DOMAIN files
               /\ files[r.val] \in { last.res.val.old, last.res.val.json }

\* two calls of save_project, one by each process, and no other: both have
\* returned Ok and both wrote the same file
BothSaved ==
    /\ entropy = Cardinality(ProcIds) * EncryptDraws
    /\ \A p \in ProcIds : procs[p].pc = "idle" /\ procs[p].ended = "returned"
    /\ \A p, q \in ProcIds : procs[p].rpath = procs[q].rpath

\* C11: once two processes have both finished save_project for the same
\* project name, whatever the interleaving of their steps, the file is the
\* complete envelope one of them wrote: never a mixture, never a partial one.
C11_LastWriterWins ==
    BothSaved =>
        \E p \in ProcIds :
            /\ procs[p].rpath \in DOMAIN files
            /\ files[procs[p].rpath] = procs[p].json

----------------------------------------------------------------------------
(* cli.rs: SecretManager.  Each command takes the filesystem and what the  *)
(* user types and returns its result, the filesystem it leaves, whether it *)
(* prompted for a password and the number of values it drew from OsRng.    *)
(* A command reads the clock once.                                         *)

CliOut(res, fs, prompted, draws) ==
    [res |-> res, files |-> fs, prompted |-> prompted, draws |-> draws]

get_password(password) ==
    IF password = <<>> THEN Err("EmptyPassword") ELSE Ok(password)

get_password_with_confirmation(password, confirm_password) ==
    IF password = <<>> THEN Err("EmptyPassword")
    ELSE IF password # confirm_password THEN Err("PasswordMismatch")
    ELSE Ok(password)

\* create without the project_exists check
cli_create_project_no_check(fs, project_name, password, confirm, now, rng) ==
    LET pw == get_password_with_confirmation(password, confirm)
    IN  IF ~pw.ok THEN CliOut(pw, fs, TRUE, 0)
        ELSE LET out == save_project(fs, ProjectNew(project_name, now),
                                     pw.val, rng)
             IN  CliOut(out.res, out.files, TRUE, EncryptDraws)

cli_create_project(fs, project_name, password, confirm, now, rng) ==
    IF project_exists(fs, project_name)
    THEN CliOut(Err("AlreadyExists"), fs, FALSE, 0)
    ELSE LET pw == get_password_with_confirmation(password, confirm)
         IN  IF ~pw.ok THEN CliOut(pw, fs, TRUE, 0)
             ELSE LET out == save_project(fs, ProjectNew(project_name, now),
                                          pw.val, rng)
                  IN  CliOut(out.res, out.files, TRUE, EncryptDraws)

cli_add_secret(fs, project_name, password, key, value, now, rng) ==
    LET pw == get_password(password)
    IN  IF ~pw.ok THEN CliOut(pw, fs, TRUE, 0)
        ELSE LET loaded == load_project(fs, project_name, pw.val)
             IN  IF ~loaded.ok THEN CliOut(loaded, fs, TRUE, 0)
                 ELSE LET out == save_project(
                                     fs, add_secret(loaded.val, key, value, now),
                                     pw.val, rng)
                      IN  CliOut(out.res, out.files, TRUE, EncryptDraws)

cli_remove_secret(fs, project_name, password, key, now, rng) ==
    LET pw == get_password(password)
    IN  IF ~pw.ok THEN CliOut(pw, fs, TRUE, 0)
        ELSE LET loaded == load_project(fs, project_name, pw.val)
             IN  IF ~loaded.ok THEN CliOut(loaded, fs, TRUE, 0)
                 ELSE LET removed == remove_secret(loaded.val, key, now)
                      IN  IF removed.result.ok
                          THEN LET out == save_project(fs, removed.project,
                                                       pw.val, rng)
                               IN  CliOut(out.res, out.files, TRUE, EncryptDraws)
                          ELSE CliOut(Ok(<<>>), fs, TRUE, 0)

\* cli.rs 318-341: the loop over the parsed variables; answers[k] is the
\* user's reply to "Overwrite?" for a key the project already has
ImportInto(p, env_vars, answers, now) ==
    LET taken == { k \in DOMAIN env_vars :
                     k \notin DOMAIN p.secrets \/ answers[k] }
    IN  [p EXCEPT
           !.secrets = [k \in (DOMAIN p.secrets) \cup taken |->
                           IF k \in taken THEN env_vars[k] ELSE p.secrets[k]],
           !.updated_at = IF taken = {} THEN @ ELSE now]

\* env_file_exists: Path::new(env_file).exists(); env_vars: what
\* parse_env_file returns for the file's content
cli_import_project(fs, project_name, password, env_file_exists, env_vars, answers, now, rng) ==
    IF ~env_file_exists THEN CliOut(Err("FileNotFound"), fs, FALSE, 0)
    ELSE LET pw == get_password(password)
         IN  IF ~pw.ok THEN CliOut(pw, fs, TRUE, 0)
             ELSE LET loaded == load_project(fs, project_name, pw.val)
                  IN  IF ~loaded.ok THEN CliOut(loaded, fs, TRUE, 0)
                      ELSE IF DOMAIN env_vars = {}
                      THEN CliOut(Ok(<<>>), fs, TRUE, 0)
                      ELSE LET out == save_project(
                                          fs,
                                          ImportInto(loaded.val, env_vars,
                                                     answers, now),
                                          pw.val, rng)
                           IN  CliOut(out.res, out.files, TRUE, EncryptDraws)

cli_delete_project(fs, project_name, confirmed) ==
    IF ~project_exists(fs, project_name)
    THEN CliOut(Err("NotFound"), fs, FALSE, 0)
    ELSE IF confirmed
    THEN LET out == delete_project(fs, project_name)
         IN  CliOut(out.res, out.files, FALSE, 0)
    ELSE CliOut(Ok(<<>>), fs, FALSE, 0)

----------------------------------------------------------------------------
(* The CLI commands that write the store, each the whole command, run one  *)
(* after the other.  hist maps the file of every project to the password   *)
(* given when it was created.                                              *)

CliNames == { <<"a">>, <<"b">>, <<".", "/", "a">> }

\* "", "p", "p\0", "q"
CliPasswords == { <<>>, <<112>>, <<112, 0>>, <<113>> }

\* clock readings of the commands
CliTimes == { 0, 1 }

\* the .env file given to import: missing, without variables, or setting
\* API_KEY, with the user's answer to "Overwrite?"
CliImports ==
    { [env_file_exists |-> FALSE, env_vars |-> <<>>, answers |-> <<>>],
      [env_file_exists |-> TRUE, env_vars |-> <<>>, answers |-> <<>>] }
    \cup { [env_file_exists |-> TRUE,
            env_vars |-> [k \in SecretKeys |-> "secret123"],
            answers |-> [k \in SecretKeys |-> answer]] : answer \in BOOLEAN }

\* the most recent command: what it was given (the password only when the
\* command came to ask for it), what it returned, whether the project
\* existed when it started, whether it asked for a password and whether it
\* changed the store
CliCall(op, name, password, out, fs) ==
    [op |-> op, name |-> name,
     password |-> IF out.prompted THEN password ELSE <<>>,
     res |-> out.res,
     existed |-> project_exists(fs, name),
     prompted |-> out.prompted,
     changed |-> out.files # fs]

FileOf(name) == Resolve(get_project_path(name)).val

CliInit ==
    /\ files = <<>>
    /\ entropy = 0
    /\ last = NoCall
    /\ hist = <<>>
    /\ written = <<>>
    /\ env = NoEnvelope
    /\ origin = NoOrigin
    /\ procs = <<>>
    /\ entity = ProjectNew(<<>>, 0)

CliStep(op, name, password, out) ==
    /\ entropy + out.draws <= MaxCliSaves * EncryptDraws
    /\ files' = out.files
    /\ entropy' = entropy + out.draws
    /\ last' = CliCall(op, name, password, out, files)
    /\ UNCHANGED <<written, env, origin, procs, entity>>

CliCreate(name, password, confirm, now) ==
    LET out == cli_create_project(files, name, password, confirm, now, entropy)
    IN  /\ CliStep("create", name, password, out)
        /\ hist' = IF out.res.ok THEN WithFile(hist, FileOf(name), password)
                   ELSE hist

CliAdd(name, password, key, value, now) ==
    /\ CliStep("add", name, password,
               cli_add_secret(files, name, password, key, value, now, entropy))
    /\ UNCHANGED hist

CliRemove(name, password, key, now) ==
    /\ CliStep("remove", name, password,
               cli_remove_secret(files, name, password, key, now, entropy))
    /\ UNCHANGED hist

CliImport(name, password, env_file_exists, env_vars, answers, now) ==
    /\ CliStep("import", name, password,
               cli_import_project(files, name, password, env_file_exists,
                                  env_vars, answers, now, entropy))
    /\ UNCHANGED hist

CliDelete(name, confirmed) ==
    LET out == cli_delete_project(files, name, confirmed)
    IN  /\ CliStep("delete", name, <<>>, out)
        /\ hist' = IF out.res.ok /\ confirmed
                   THEN WithoutFile(hist, FileOf(name))
                   ELSE hist

CliNext ==
    \/ \E name \in CliNames, password \in CliPasswords,
          confirm \in StorePasswords, now \in CliTimes :
            CliCreate(name, password, confirm, now)
    \/ \E name \in CliNames, password \in CliPasswords,
          key \in SecretKeys, now \in CliTimes :
            CliAdd(name, password, key, "abc123", now)
    \/ \E name \in CliNames, password \in CliPasswords,
          key \in SecretKeys, now \in CliTimes :
            CliRemove(name, password, key, now)
    \/ \E name \in CliNames, password \in CliPasswords,
          input \in CliImports, now \in CliTimes :
            CliImport(name, password, input.env_file_exists, input.env_vars,
                      input.answers, now)
    \/ \E name \in CliNames, confirmed \in BOOLEAN : CliDelete(name, confirmed)

CliSpec == CliInit /\ [][CliNext]_vars

\* create, add and delete alone: the commands that decide whether a project
\* is there, and one that rewrites an existing one
CreateNext ==
    \/ \E name \in CliNames, password \in CliPasswords,
          confirm \in StorePasswords, now \in CliTimes :
            CliCreate(name, password, confirm, now)
    \/ \E name \in CliNames, password \in StorePasswords,
          key \in SecretKeys, now \in CliTimes :
            CliAdd(name, password, key, "abc123", now)
    \/ \E name \in CliNames, confirmed \in BOOLEAN : CliDelete(name, confirmed)

CreateSpec == CliInit /\ [][CreateNext]_vars

\* C14: create for a name that has an envelope fails with the already-exists
\* error before it asks for a password and leaves the store as it was;
\* save_project for such a name succeeds and replaces the envelope.
C14_CreateNeverReplaces ==
    /\ (last.op = "create" /\ last.existed)
          => /\ last.res = Err("AlreadyExists")
             /\ ~last.prompted
             /\ ~last.changed
    /\ \A n \in CliNames, w \in StorePasswords :
          project_exists(files, n)
            => LET out == save_project(files, ProjectNew(n, 0), w, entropy)
               IN  /\ out.res.ok
                   /\ out.files[FileOf(n)] # files[FileOf(n)]
                   /\ load_project(out.files, n, w) = Ok(ProjectNew(n, 0))

\* create "./a" refused because the project created as "a" is there, with a
\* secret added since
C14_Witness ==
    /\ last.op = "create"
    /\ last.name = <<".", "/", "a">>
    /\ last.existed
    /\ last.res = Err("AlreadyExists")
    /\ load_project(files, <<"a">>, <<112>>).ok
    /\ load_project(files, <<"a">>, <<112>>).val.name = <<"a">>
    /\ load_project(files, <<"a">>, <<112>>).val.secrets # <<>>

\* C16: add, remove and import fail and write nothing when the project is
\* not there or the password does not decrypt its envelope; after a
\* successful one the envelope decrypts under the password it was given; and
\* the only password that loads a project is the one given at create.
C16_PasswordNeverChanges ==
    /\ last.op \in { "add", "remove", "import" } =>
          /\ ~last.res.ok => ~last.changed
          /\ last.res.ok =>
                /\ last.existed
                /\ load_project(files, last.name, last.password).ok
    /\ \A n \in CliNames, w \in CliPasswords :
          load_project(files, n, w).ok
            => FileOf(n) \in DOMAIN hist /\ w = hist[FileOf(n)]

----------------------------------------------------------------------------
(* Claims about the project store, checked under Spec. *)

InsideStorageRoot(rpath) == Parent(rpath) = StorageRoot

\* C1: when the most recent save or delete for a name N is
\* save_project(P, W), load_project(N, W) succeeds and returns the name and
\* the secrets of P, and one envelope file exists for N.
C1_LoadReturnsLastSave ==
    \A n \in StoreNames :
        hist[n].op = "save" =>
            LET r == load_project(files, n, hist[n].password)
            IN  /\ project_exists(files, n)
                /\ r.ok
                /\ r.val.name = hist[n].project.name
                /\ r.val.secrets = hist[n].project.secrets

\* C5: no operation of the store reads, writes, removes or probes a file
\* outside the storage root, whatever the project name.
C5_StaysInsideRoot ==
    \A q \in last.touched : InsideStorageRoot(q)

\* C8: delete_project(name) fails with NotFound and changes nothing when no
\* envelope exists for name; otherwise it removes that project's file and
\* leaves the others as they were.  From a successful delete until the next
\* save for name, project_exists(name) is false and load_project fails with
\* NotFound.
C8_Deleted ==
    \A n \in StoreNames :
        hist[n].op = "delete" =>
            /\ ~project_exists(files, n)
            /\ \A w \in StorePasswords :
                  load_project(files, n, w) = Err("NotFound")

C8_DeleteStep ==
    \A n \in StoreNames :
        DeleteProject(n) =>
            IF project_exists(files, n)
            THEN /\ last'.res.ok
                 /\ \A m \in StoreNames :
                       get_project_path(m) # get_project_path(n) /\ hist[m].op = "save"
                          => load_project(files', m, hist[m].password)
                               = load_project(files, m, hist[m].password)
            ELSE /\ last'.res = Err("NotFound")
                 /\ files' = files

\* C8: every delete_project step keeps the delete contract, and every name
\* whose most recent save or delete is a delete is absent.
C8_DeleteContract == [][C8_DeleteStep /\ C8_Deleted']_vars

\* C9: list_projects returns exactly the names that have an envelope on
\* disk, each once, in lexicographic order.
C9_ListIsSavedNames ==
    list_projects(files) = Ok(Sorted({ n \in StoreNames : hist[n].op = "save" }))

\* C15: for every name whose save save_project accepted, project_exists(name)
\* is true exactly when name is an element of list_projects().
C15_ExistsAgreesWithList ==
    \A n \in StoreNames :
        hist[n].op = "save" =>
            LET listed == list_projects(files).val
            IN  project_exists(files, n)
                    <=> (\E i \in DOMAIN listed : listed[i] = n)

====
